---- MODULE Spec2Model ----
(***************************************************************************)
(* Model of memio.File (src/file.go): an in-memory buffer with one cursor. *)
(*                                                                         *)
(* A Go slice is a window on a backing array: f.buf has a length and a     *)
(* capacity, and the bytes of the array between the length and the         *)
(* capacity keep whatever was stored there.  The model keeps the window    *)
(* in buf and the rest of the backing array in spare, so that              *)
(* len(f.buf) = Len(buf) and cap(f.buf) = Len(buf) + Len(spare).           *)
(***************************************************************************)
EXTENDS Integers, Sequences, FiniteSets, TLC

\* pos, buf: the fields of File; spare: the rest of buf's backing array;
\* last: the latest call, the count and the error it returned;
\* trip: how far a round trip (Write, Seek back, Read) has come;
\* drain: the cursor at which the current run of Read calls began, and the
\* bytes these calls have returned.
VARIABLES pos, buf, spare, last, trip, drain

vars == <<pos, buf, spare, last, trip, drain>>

(***************************************************************************)
(* Bounds of the model.                                                    *)
(***************************************************************************)
MaxCap == 3       \* no operation is taken that needs a larger backing array
MaxData == 2      \* longest byte sequence handed to, or asked of, one call
MaxInit == 1      \* longest slice, and most spare capacity, handed to NewFile
MaxArgs == 1      \* most strings handed to one PrintString call
MaxOff == 2       \* largest seek offset and Truncate size
MaxCalls == 1     \* most Read calls a source answers with data and no error
GrowChunk == 1    \* the 1 << 10 of ReadFrom, scaled down
MaxTyped == 10    \* largest backing array of the typed reads and writes

\* The code never looks at the value of a byte, except to compare it with a
\* delimiter, and fills holes with 0: two values tell apart what it does.
Byte == {0, 1}

\* An allocation gives the capacity asked for, or more: how much more is the
\* allocator's choice, and the code only depends on there being any.
Slacks == {0, 1}

SeekStart == 0
SeekCurrent == 1
SeekEnd == 2

(***************************************************************************)
(* Helpers on sequences.                                                   *)
(***************************************************************************)
Min(a, b) == IF a < b THEN a ELSE b

Max(a, b) == IF a > b THEN a ELSE b

Zeros(n) == [i \in 1..n |-> 0]

BSeq(n) == UNION {[1..k -> Byte] : k \in 0..n}

\* s[lo:hi] of Go, 0-based and half-open
Slice(s, lo, hi) == SubSeq(s, lo + 1, hi)

\* copy(dst, src) where dst is arr[at:at+Len(src)]
CopyAt(arr, at, src) ==
    [i \in 1..Len(arr) |->
        IF i > at /\ i <= at + Len(src) THEN src[i - at] ELSE arr[i]]

(***************************************************************************)
(* The File value: pos, buf and the rest of buf's backing array.           *)
(***************************************************************************)
File(p, b, s) == [pos |-> p, buf |-> b, spare |-> s]

Arr(f) == f.buf \o f.spare

Cap(f) == Len(f.buf) + Len(f.spare)

\* f.buf = arr[:n] on the backing array arr
Reslice(f, arr, n) ==
    [f EXCEPT !.buf = Slice(arr, 0, n), !.spare = Slice(arr, n, Len(arr))]

\* slices.Grow(f.buf, n): room for n more elements after len(f.buf).  A
\* reallocation copies the whole old array, stale bytes included, and the
\* new tail is zero; e is the extra capacity the allocator adds.
slicesGrow(f, n, e) ==
    IF n > Len(f.spare)
    THEN [f EXCEPT !.spare = @ \o Zeros(n + e - Len(f.spare))]
    ELSE f

\* append(f.buf[:at], s...): in place when the capacity suffices, else a new
\* array holding the at kept bytes, s, and zeros.
appendAt(f, at, s, e) ==
    IF at + Len(s) <= Cap(f)
    THEN Reslice(f, CopyAt(Arr(f), at, s), at + Len(s))
    ELSE [f EXCEPT !.buf = Slice(Arr(f), 0, at) \o s, !.spare = Zeros(e)]

(***************************************************************************)
(* The methods, as functions from a File (and arguments) to a result.      *)
(***************************************************************************)
Ret(f, n, err, data) == [f |-> f, n |-> n, err |-> err, data |-> data]

\* Reset that forgets the cursor
ResetKeepPos(f) == Reslice(f, Arr(f), 0)

Reset(f) == Reslice([f EXCEPT !.pos = 0], Arr(f), 0)

\* Seek that moves the cursor and does not grow the buffer under it
SeekNoGrow(f, offset, whence, e) ==
    LET sp == CASE whence = SeekStart -> offset
                [] whence = SeekCurrent -> f.pos + offset
                [] whence = SeekEnd -> Len(f.buf) + offset
                [] OTHER -> 0
    IN  IF whence \notin {SeekStart, SeekCurrent, SeekEnd} \/ sp < 0
        THEN Ret(f, 0, "ErrInvalid", <<>>)
        ELSE Ret([f EXCEPT !.pos = sp], sp, "nil", <<>>)

\* Seek that takes a negative target for the start of the buffer
SeekClamp(f, offset, whence, e) ==
    LET sp == CASE whence = SeekStart -> offset
                [] whence = SeekCurrent -> f.pos + offset
                [] whence = SeekEnd -> Len(f.buf) + offset
                [] OTHER -> 0
        tp == IF sp < 0 THEN 0 ELSE sp
    IN  IF whence \notin {SeekStart, SeekCurrent, SeekEnd}
        THEN Ret(f, 0, "ErrInvalid", <<>>)
        ELSE LET g == [f EXCEPT !.pos = tp]
             IN  IF tp > Len(f.buf)
                 THEN LET h == slicesGrow(g, tp, e)
                      IN  Ret(Reslice(h, Arr(h), tp), tp, "nil", <<>>)
                 ELSE Ret(g, tp, "nil", <<>>)

Seek(f, offset, whence, e) ==
    LET sp == CASE whence = SeekStart -> offset
                [] whence = SeekCurrent -> f.pos + offset
                [] whence = SeekEnd -> Len(f.buf) + offset
                [] OTHER -> 0
    IN  IF whence \notin {SeekStart, SeekCurrent, SeekEnd}
        THEN Ret(f, 0, "ErrInvalid", <<>>)
        ELSE IF sp < 0
        THEN Ret(f, 0, "ErrInvalid", <<>>)
        ELSE LET g == [f EXCEPT !.pos = sp]
             IN  IF sp > Len(f.buf)
                 THEN LET h == slicesGrow(g, sp, e)
                      IN  Ret(Reslice(h, Arr(h), sp), sp, "nil", <<>>)
                 ELSE Ret(g, sp, "nil", <<>>)

\* Truncate that clips the buffer and leaves the cursor where it was
TruncateKeepPos(f, n, e) ==
    LET g == slicesGrow(f, n, e)
    IN  Reslice(g, Arr(g), n)

Truncate(f, n, e) ==
    LET g == Seek(f, n, SeekStart, e).f
    IN  Reslice(g, Arr(g), n)

\* Read that copies and does not advance the cursor
ReadNoAdvance(f, k) ==
    IF f.pos >= Len(f.buf)
    THEN Ret(f, 0, "EOF", <<>>)
    ELSE LET n == Min(k, Len(f.buf) - f.pos)
         IN  Ret(f, n, "nil", Slice(f.buf, f.pos, f.pos + n))

Read(f, k) ==
    IF f.pos >= Len(f.buf)
    THEN Ret(f, 0, "EOF", <<>>)
    ELSE LET n == Min(k, Len(f.buf) - f.pos)
         IN  Ret([f EXCEPT !.pos = @ + n], n, "nil",
                 Slice(f.buf, f.pos, f.pos + n))

\* Expand that always cuts the buffer at the end of the reserved bytes
ExpandClip(f, n, e) ==
    LET m == n + f.pos
        g == slicesGrow(f, m, e)
    IN  [Reslice(g, Arr(g), m) EXCEPT !.pos = m]

\* Expand that reserves the bytes and leaves the cursor before them
ExpandKeepPos(f, n, e) ==
    LET m == n + f.pos
        g == slicesGrow(f, m, e)
    IN  IF m > Len(g.buf) THEN Reslice(g, Arr(g), m) ELSE g

Expand(f, n, e) ==
    LET m == n + f.pos
        g == slicesGrow(f, m, e)
        h == IF m > Len(g.buf) THEN Reslice(g, Arr(g), m) ELSE g
    IN  [h EXCEPT !.pos = m]

Grow(f, n, e) == slicesGrow(f, f.pos + n, e)

Write(f, p, e) ==
    LET g == Expand(f, Len(p), e)
    IN  Ret(Reslice(g, CopyAt(Arr(g), f.pos, p), Len(g.buf)), Len(p), "nil", <<>>)

WriteString(f, p, e) ==
    LET g == Expand(f, Len(p), e)
    IN  Ret(Reslice(g, CopyAt(Arr(g), f.pos, p), Len(g.buf)), Len(p), "nil", <<>>)

WriteByte(f, c, e) ==
    LET g == Expand(f, 1, e)
    IN  Ret(Reslice(g, CopyAt(Arr(g), f.pos, <<c>>), Len(g.buf)), 0, "nil", <<>>)

Rewind(f) == [f EXCEPT !.pos = 0]

\* One iteration of the loop of ReadFrom per element of calls: the source's
\* answers (data, err) to the successive r.Read calls.
RECURSIVE ReadFromLoop(_, _, _, _)
ReadFromLoop(f, calls, n, e) ==
    LET g == Grow(f, GrowChunk, e)
        c == Head(calls)
        m == Len(c.data)
        h == Reslice(g, CopyAt(Arr(g), g.pos, c.data), g.pos + m)
    IN  IF c.err # "nil"
        THEN Ret(h, n + m, IF c.err = "EOF" THEN "nil" ELSE c.err, <<>>)
        ELSE ReadFromLoop(h, Tail(calls), n + m, e)

ReadFrom(f, calls, e) == ReadFromLoop(f, calls, 0, e)

\* ReadByte that returns the byte after the one at the cursor
ReadByteNext(f) ==
    IF f.pos >= Len(f.buf)
    THEN Ret(f, 0, "EOF", <<>>)
    ELSE Ret([f EXCEPT !.pos = @ + 1], 0, "nil",
             <<IF f.pos + 1 < Len(f.buf) THEN f.buf[f.pos + 2] ELSE 0>>)

ReadByte(f) ==
    IF f.pos >= Len(f.buf)
    THEN Ret(f, 0, "EOF", <<>>)
    ELSE Ret([f EXCEPT !.pos = @ + 1], 0, "nil", <<f.buf[f.pos + 1]>>)

\* bytes.IndexByte(s, delim): 0-based index of the first delim, or -1
IndexByte(s, delim) ==
    IF \E i \in 1..Len(s) : s[i] = delim
    THEN (CHOOSE i \in 1..Len(s) :
              s[i] = delim /\ \A j \in 1..(i - 1) : s[j] # delim) - 1
    ELSE 0 - 1

\* readBytes that leaves the cursor on the delimiter
readBytesKeepDelim(f, delim) ==
    IF f.pos >= Len(f.buf)
    THEN Ret(f, 0, "ErrUnexpectedEOF", <<>>)
    ELSE LET i == IndexByte(Slice(f.buf, f.pos, Len(f.buf)), delim)
         IN  IF i >= 0
             THEN Ret([f EXCEPT !.pos = @ + i], 0, "nil",
                      Slice(f.buf, f.pos, f.pos + i))
             ELSE Ret([f EXCEPT !.pos = Len(f.buf)], 0, "ErrUnexpectedEOF",
                      Slice(f.buf, f.pos, Len(f.buf)))

readBytes(f, delim) ==
    IF f.pos >= Len(f.buf)
    THEN Ret(f, 0, "ErrUnexpectedEOF", <<>>)
    ELSE LET i == IndexByte(Slice(f.buf, f.pos, Len(f.buf)), delim)
         IN  IF i >= 0
             THEN Ret([f EXCEPT !.pos = @ + i + 1], 0, "nil",
                      Slice(f.buf, f.pos, f.pos + i))
             ELSE Ret([f EXCEPT !.pos = Len(f.buf)], 0, "ErrUnexpectedEOF",
                      Slice(f.buf, f.pos, Len(f.buf)))

ReadBytes(f, delim) == readBytes(f, delim)

ReadString(f, delim) == readBytes(f, delim)

ReadFull(f, k) ==
    IF f.pos >= Len(f.buf)
    THEN Ret(f, 0, "ErrUnexpectedEOF", <<>>)
    ELSE LET n == Min(k, Len(f.buf) - f.pos)
         IN  Ret([f EXCEPT !.pos = @ + n], n,
                 IF n < k THEN "ErrUnexpectedEOF" ELSE "nil",
                 Slice(f.buf, f.pos, f.pos + n))

(***************************************************************************)
(* Typed numbers.  A w-byte unsigned number is kept as its w base-256      *)
(* digits, most significant first, so that all widths fit; a byte order    *)
(* lays the digits out in that order ("BE") or reversed ("LE").            *)
(***************************************************************************)
Reverse(s) == [i \in 1..Len(s) |-> s[Len(s) + 1 - i]]

PutUint(o, v) == IF o = "BE" THEN v ELSE Reverse(v)

Uint(o, p) == IF o = "BE" THEN p ELSE Reverse(p)

\* a typed read that puts the cursor back when it fails
ReadUintAtomic(f, w, o) ==
    LET r == ReadFull(f, w)
    IN  IF r.err # "nil"
        THEN Ret(f, 0, r.err, Zeros(w))
        ELSE Ret(r.f, 0, "nil", Uint(o, r.data))

\* ReadUint16, ReadUint32, ReadUint64 (w = 2, 4, 8) and their wrappers
ReadUint(f, w, o) ==
    LET r == ReadFull(f, w)
    IN  IF r.err # "nil"
        THEN Ret(r.f, 0, r.err, Zeros(w))
        ELSE Ret(r.f, 0, "nil", Uint(o, r.data))

\* WriteUint16, WriteUint32, WriteUint64 (Len(v) = 2, 4, 8) and their wrappers
WriteUint(f, o, v, e) ==
    LET g == Expand(f, Len(v), e)
    IN  Reslice(g, CopyAt(Arr(g), f.pos, PutUint(o, v)), Len(g.buf))

\* fmt.Fprintf(f, format, args...) hands the rendered text to f.Write once
Printf(f, text, e) == Write(f, text, e).f

\* utf8.AppendRune: the UTF-8 encoding of r
EncodeRune(r) ==
    IF r >= 0 /\ r < 128 THEN <<r>>
    ELSE IF r >= 128 /\ r < 2048 THEN <<192 + (r \div 64), 128 + (r % 64)>>
    ELSE IF r < 0 \/ r > 1114111 \/ (r >= 55296 /\ r <= 57343)
    THEN <<239, 191, 189>>
    ELSE IF r < 65536
    THEN <<224 + (r \div 4096), 128 + ((r \div 64) % 64), 128 + (r % 64)>>
    ELSE <<240 + (r \div 262144), 128 + ((r \div 4096) % 64),
           128 + ((r \div 64) % 64), 128 + (r % 64)>>

PrintRune(f, r, e) ==
    LET s == appendAt(f, f.pos, EncodeRune(r), e)
    IN  IF Len(s.buf) > Len(f.buf)
        THEN [s EXCEPT !.pos = Len(s.buf)]
        ELSE [Reslice(f, Arr(s), Len(f.buf)) EXCEPT !.pos = Len(s.buf)]

RECURSIVE PrintStringLoop(_, _, _)
PrintStringLoop(f, a, e) ==
    IF a = <<>> THEN f
    ELSE PrintStringLoop(
             [appendAt(f, f.pos, Head(a), e) EXCEPT !.pos = @ + Len(Head(a))],
             Tail(a), e)

RECURSIVE TotalLen(_)
TotalLen(a) == IF a = <<>> THEN 0 ELSE Len(Head(a)) + TotalLen(Tail(a))

PrintString(f, a, e) == PrintStringLoop(Grow(f, TotalLen(a), e), a, e)

PrintBytes(f, s, e) == [appendAt(f, f.pos, s, e) EXCEPT !.pos = @ + Len(s)]

PrintByte(f, b, e) == [appendAt(f, f.pos, <<b>>, e) EXCEPT !.pos = @ + 1]

\* fn is what the callback does with s = f.buf[pos:pos:pos+size]: it appends
\* fn.t within s's capacity and returns that (fn.same), or it returns
\* another slice holding fn.t and leaves s alone.
PrintFunc(f, size, fn, e) ==
    LET g == Grow(f, size, e)
    IN  IF fn.same
        THEN [Reslice(g, CopyAt(Arr(g), g.pos, fn.t), g.pos + Len(fn.t))
                 EXCEPT !.pos = @ + Len(fn.t)]
        ELSE LET h == appendAt(g, g.pos, fn.t, e)
             IN  [h EXCEPT !.pos = Len(h.buf)]

\* sink is the answer (n, err) of w.Write to the bytes it is offered
\* WriteTo that advances past all it offered, whatever the sink accepted
WriteToAll(f, sink) ==
    IF f.pos >= Len(f.buf)
    THEN Ret(f, 0, "ErrUnexpectedEOF", <<>>)
    ELSE LET s == Slice(f.buf, f.pos, Len(f.buf))
             g == [f EXCEPT !.pos = Len(f.buf)]
         IN  IF sink.err # "nil" THEN Ret(g, sink.n, sink.err, s)
             ELSE IF sink.n < Len(s) THEN Ret(g, sink.n, "ErrShortWrite", s)
             ELSE Ret(g, sink.n, "nil", s)

\* WriteTo that empties the file once all of it is written out, as
\* bytes.Buffer does
WriteToReset(f, sink) ==
    IF f.pos >= Len(f.buf)
    THEN Ret(f, 0, "ErrUnexpectedEOF", <<>>)
    ELSE LET s == Slice(f.buf, f.pos, Len(f.buf))
             g == [f EXCEPT !.pos = @ + sink.n]
         IN  IF sink.err # "nil" THEN Ret(g, sink.n, sink.err, s)
             ELSE IF sink.n < Len(s) THEN Ret(g, sink.n, "ErrShortWrite", s)
             ELSE Ret(Reset(g), sink.n, "nil", s)

WriteTo(f, sink) ==
    IF f.pos >= Len(f.buf)
    THEN Ret(f, 0, "ErrUnexpectedEOF", <<>>)
    ELSE LET s == Slice(f.buf, f.pos, Len(f.buf))
             g == [f EXCEPT !.pos = @ + sink.n]
         IN  IF sink.err # "nil" THEN Ret(g, sink.n, sink.err, s)
             ELSE IF sink.n < Len(s) THEN Ret(g, sink.n, "ErrShortWrite", s)
             ELSE Ret(g, sink.n, "nil", s)

(***************************************************************************)
(* Sources for ReadFrom: a stream d cut into k answers with data and no    *)
(* error, then one answer, with the rest of d or no data, that ends the    *)
(* stream with io.EOF or with an error of the source.  No answer has more  *)
(* than GrowChunk bytes: that much room every Read call is offered.        *)
(***************************************************************************)
\* the stream 1, 0, 1, ... of n bytes
Stream(n) == [i \in 1..n |-> i % 2]

Streams == {Stream(n) : n \in 0..MaxData}

Answer(d, err) == [data |-> d, err |-> err]

Cuts(d, k) ==
    {c \in [0..(k + 1) -> 0..Len(d)] :
        /\ c[0] = 0
        /\ c[k + 1] = Len(d)
        /\ \A i \in 1..k : c[i - 1] < c[i]
        /\ \A i \in 1..(k + 1) : c[i] - c[i - 1] <= GrowChunk}

Sources ==
    UNION {
        {[i \in 1..(k + 1) |->
             Answer(Slice(d, c[i - 1], c[i]), IF i <= k THEN "nil" ELSE err)] :
            c \in Cuts(d, k), err \in {"EOF", "ErrSource"}} :
        d \in Streams, k \in 0..MaxCalls}

\* The answers ReadFrom on f gets from a source that holds the stream d,
\* fills the room each r.Read call offers, f.buf[f.pos:cap(f.buf)], and
\* reports io.EOF together with its last bytes, as iotest.DataErrReader does.
RECURSIVE GreedyCalls(_, _, _)
GreedyCalls(f, d, e) ==
    LET g == Grow(f, GrowChunk, e)
        m == Min(Cap(g) - g.pos, Len(d))
        h == Reslice(g, CopyAt(Arr(g), g.pos, Slice(d, 0, m)), g.pos + m)
    IN  IF m = Len(d)
        THEN <<Answer(d, "EOF")>>
        ELSE <<Answer(Slice(d, 0, m), "nil")>>
                 \o GreedyCalls(h, Slice(d, m, Len(d)), e)

\* every byte the source delivered, in order
RECURSIVE Delivered(_)
Delivered(calls) ==
    IF calls = <<>> THEN <<>> ELSE Head(calls).data \o Delivered(Tail(calls))

(***************************************************************************)
(* State machine.                                                          *)
(***************************************************************************)
Cur == File(pos, buf, spare)

NoCall == [op |-> "NewFile", n |-> 0, err |-> "nil"]

NoTrip == [st |-> "none", p |-> 0, k |-> 0]

\* A round trip is a Write of k bytes at cursor p, then a Seek that succeeds
\* and puts the cursor back at p, then a Read that returns k bytes, with no
\* other call in between.
TripAfter(f, op, n, err) ==
    IF op = "Write" THEN [st |-> "written", p |-> pos, k |-> n]
    ELSE IF op = "Seek" /\ err = "nil" /\ trip.st = "written" /\ f.pos = trip.p
    THEN [trip EXCEPT !.st = "sought"]
    ELSE IF op = "Read" /\ trip.st = "sought" /\ n = trip.k
    THEN [trip EXCEPT !.st = "read"]
    ELSE NoTrip

\* no Read yet since the cursor was put at p
NoDrain(p) == [p |-> p, out |-> <<>>]

\* Install the state f, of capacity c at most, and remember the call and
\* what it returned.
StepCore(f, op, n, err, c) ==
    /\ Cap(f) <= c
    /\ pos' = f.pos
    /\ buf' = f.buf
    /\ spare' = f.spare
    /\ last' = [op |-> op, n |-> n, err |-> err]
    /\ trip' = TripAfter(f, op, n, err)

\* a call other than Read: a run of Read calls can begin where it leaves
\* the cursor
Step(f, op, n, err) ==
    /\ StepCore(f, op, n, err, MaxCap)
    /\ drain' = NoDrain(f.pos)

(***************************************************************************)
(* The arguments the calls are tried with.                                 *)
(***************************************************************************)
Datas == BSeq(MaxData)

Sizes == 0..MaxOff

Offsets == (0 - MaxOff)..MaxOff

Whences == {SeekStart, SeekCurrent, SeekEnd, 3}

Widths == {2, 4, 8}

Orders == {"BE", "LE"}

\* numbers of w digits: the first and the last digit vary
Numbers(w) ==
    {[i \in 1..w |-> IF i = 1 THEN hi ELSE IF i = w THEN lo ELSE 0] :
        hi \in Byte, lo \in Byte}

Runes == {1}

\* the strings of one PrintString call: empty ones and single bytes
StringLists == UNION {[1..k -> {<<>>, <<0>>, <<1>>}] : k \in 0..MaxArgs}

\* the callbacks of PrintFunc: one that appends t within the capacity size it
\* is given, one that returns nothing of its own, and one that appends one
\* byte more than size, which moves its result to a new array
Funcs(size) ==
    {[same |-> TRUE, t |-> t] : t \in BSeq(size)}
        \cup {[same |-> FALSE, t |-> <<>>]}
        \cup {[same |-> FALSE, t |-> t] : t \in [1..(size + 1) -> Byte]}

Sinks(offered) ==
    {[n |-> n, err |-> err] : n \in 0..offered, err \in {"nil", "ErrSink"}}

\* NewFile(s), or &File{}: s is any slice, with any bytes in its capacity
Init ==
    /\ pos = 0
    /\ buf \in BSeq(MaxInit)
    /\ spare \in BSeq(MaxInit)
    /\ last = NoCall
    /\ trip = NoTrip
    /\ drain = NoDrain(0)
DoReset ==
    Step(Reset(Cur), "Reset", 0, "nil")

DoTruncate ==
    \E n \in Sizes, e \in Slacks :
        Step(Truncate(Cur, n, e), "Truncate", 0, "nil")

DoSeek ==
    \E offset \in Offsets, whence \in Whences, e \in Slacks :
        LET r == Seek(Cur, offset, whence, e)
        IN  Step(r.f, "Seek", r.n, r.err)

DoRewind ==
    Step(Rewind(Cur), "Rewind", 0, "nil")

\* Read into a destination of one of the sizes ks
ReadInto(ks) ==
    \E k \in ks :
        LET r == Read(Cur, k)
        IN  /\ StepCore(r.f, "Read", r.n, r.err, MaxCap)
            /\ drain' = [drain EXCEPT !.out = @ \o r.data]

DoRead == ReadInto(0..MaxData)

DoReadByte ==
    LET r == ReadByte(Cur)
    IN  Step(r.f, "ReadByte", r.n, r.err)

DoReadBytes ==
    \E delim \in Byte :
        LET r == ReadBytes(Cur, delim)
        IN  Step(r.f, "ReadBytes", r.n, r.err)

DoReadString ==
    \E delim \in Byte :
        LET r == ReadString(Cur, delim)
        IN  Step(r.f, "ReadString", r.n, r.err)

DoReadFull ==
    \E k \in 0..MaxData :
        LET r == ReadFull(Cur, k)
        IN  Step(r.f, "ReadFull", r.n, r.err)

DoReadUint ==
    \E w \in Widths, o \in Orders :
        LET r == ReadUint(Cur, w, o)
        IN  Step(r.f, "ReadUint", r.n, r.err)

DoExpand ==
    \E n \in 0..MaxData, e \in Slacks :
        Step(Expand(Cur, n, e), "Expand", 0, "nil")

DoGrow ==
    \E n \in 0..MaxData, e \in Slacks :
        Step(Grow(Cur, n, e), "Grow", 0, "nil")

DoReadFrom ==
    \E calls \in Sources, e \in Slacks :
        LET r == ReadFrom(Cur, calls, e)
        IN  Step(r.f, "ReadFrom", r.n, r.err)

DoWriteTo ==
    \E sink \in Sinks(Len(buf) - pos) :
        LET r == WriteTo(Cur, sink)
        IN  Step(r.f, "WriteTo", r.n, r.err)

DoWrite ==
    \E p \in Datas, e \in Slacks :
        LET r == Write(Cur, p, e)
        IN  Step(r.f, "Write", r.n, r.err)

DoWriteString ==
    \E p \in Datas, e \in Slacks :
        LET r == WriteString(Cur, p, e)
        IN  Step(r.f, "WriteString", r.n, r.err)

DoWriteByte ==
    \E c \in Byte, e \in Slacks :
        LET r == WriteByte(Cur, c, e)
        IN  Step(r.f, "WriteByte", r.n, r.err)

DoWriteUint ==
    \E w \in Widths, o \in Orders, e \in Slacks :
        \E v \in Numbers(w) :
            Step(WriteUint(Cur, o, v, e), "WriteUint", 0, "nil")

DoPrintf ==
    \E text \in Datas, e \in Slacks :
        Step(Printf(Cur, text, e), "Printf", 0, "nil")

DoPrintRune ==
    \E r \in Runes, e \in Slacks :
        Step(PrintRune(Cur, r, e), "PrintRune", 0, "nil")

DoPrintString ==
    \E a \in StringLists, e \in Slacks :
        Step(PrintString(Cur, a, e), "PrintString", 0, "nil")

DoPrintBytes ==
    \E s \in Datas, e \in Slacks :
        Step(PrintBytes(Cur, s, e), "PrintBytes", 0, "nil")

DoPrintByte ==
    \E b \in Byte, e \in Slacks :
        Step(PrintByte(Cur, b, e), "PrintByte", 0, "nil")

DoPrintFunc ==
    \E size \in 0..(MaxData - 1), e \in Slacks :
        \E fn \in Funcs(size) :
            Step(PrintFunc(Cur, size, fn, e), "PrintFunc", 0, "nil")

Next ==
    \/ DoReset
    \/ DoTruncate
    \/ DoSeek
    \/ DoRewind
    \/ DoRead
    \/ DoReadByte
    \/ DoReadBytes
    \/ DoReadString
    \/ DoReadFull
    \/ DoReadUint
    \/ DoExpand
    \/ DoGrow
    \/ DoReadFrom
    \/ DoWriteTo
    \/ DoWrite
    \/ DoWriteString
    \/ DoWriteByte
    \/ DoWriteUint
    \/ DoPrintf
    \/ DoPrintRune
    \/ DoPrintString
    \/ DoPrintBytes
    \/ DoPrintByte
    \/ DoPrintFunc

Spec == Init /\ [][Next]_vars

(***************************************************************************)
(* Draining: a caller that does nothing but Read, into destinations that   *)
(* are not empty, starting from any File: NewFile on a slice of any length *)
(* and capacity, then a Seek into the data.  The caller keeps calling, so  *)
(* a Read that can change the state is taken in the end.                   *)
(***************************************************************************)
InitDrain ==
    /\ buf \in BSeq(MaxCap)
    /\ spare \in BSeq(MaxCap - Len(buf))
    /\ pos \in 0..Len(buf)
    /\ last = NoCall
    /\ trip = NoTrip
    /\ drain = NoDrain(pos)

DoDrain == ReadInto(1..MaxData)

SpecDrain == InitDrain /\ [][DoDrain]_vars /\ WF_vars(DoDrain)

(***************************************************************************)
(* Typed numbers: a File that starts empty and is only written, rewound    *)
(* and read with the typed calls, of all three widths, in a backing array  *)
(* that has room for the 8-byte ones.                                      *)
(***************************************************************************)
InitTyped ==
    /\ pos = 0
    /\ buf = <<>>
    /\ spare = <<>>
    /\ last = NoCall
    /\ trip = NoTrip
    /\ drain = NoDrain(0)

\* a call other than Read, within the capacity of the typed numbers
StepTyped(f, op, n, err) ==
    /\ StepCore(f, op, n, err, MaxTyped)
    /\ drain' = NoDrain(f.pos)

DoTypedWrite ==
    \E w \in Widths, o \in Orders, e \in Slacks :
        \E v \in Numbers(w) :
            StepTyped(WriteUint(Cur, o, v, e), "WriteUint", 0, "nil")

DoTypedRewind == StepTyped(Rewind(Cur), "Rewind", 0, "nil")

\* the count remembered is the number of bytes the call took
DoTypedRead ==
    \E w \in Widths, o \in Orders :
        LET r == ReadUint(Cur, w, o)
        IN  StepTyped(r.f, "ReadUint", r.f.pos - pos, r.err)

NextTyped ==
    \/ DoTypedWrite
    \/ DoTypedRewind
    \/ DoTypedRead

SpecTyped == InitTyped /\ [][NextTyped]_vars

(***************************************************************************)
(* Properties.  A property of one call is stated of the call's result in   *)
(* every reachable state and for every argument of the sets above; a       *)
(* property of the state a call leaves is stated of the states with that   *)
(* call in last.                                                           *)
(***************************************************************************)
Valid(whence) == whence \in {SeekStart, SeekCurrent, SeekEnd}

\* the absolute target of Seek(offset, whence) in the current state
Target(offset, whence) ==
    CASE whence = SeekStart -> offset
      [] whence = SeekCurrent -> pos + offset
      [] OTHER -> Len(buf) + offset

EndsWithEOF(calls) == calls[Len(calls)].err = "EOF"

\* s is t on their first n bytes
SamePrefix(s, t, n) == \A i \in 1..n : s[i] = t[i]

\* C1: ReadFrom on a source that delivers its bytes over one or more Read
\* calls and then ends returns the number of bytes delivered and no error,
\* and the buffer then holds all of them, in order, from the cursor on.
\* (ReadFrom leaves the cursor where it was, and the stream of n bytes is
\* Stream(n).)
C1_ReadFromKeepsAll ==
    /\ \A calls \in Sources, e \in Slacks :
           EndsWithEOF(calls) =>
               /\ ReadFrom(Cur, calls, e).n = Len(Delivered(calls))
               /\ ReadFrom(Cur, calls, e).err = "nil"
    /\ last.op = "ReadFrom" /\ last.err = "nil" =>
           /\ Len(buf) >= pos + last.n
           /\ Slice(buf, pos, pos + last.n) = Stream(last.n)

\* C2: whenever a call has returned, 0 <= cursor <= logical length; a Seek
\* forward never leaves the cursor beyond the logical length.
C2_CursorInBuffer == 0 <= pos /\ pos <= Len(buf)

\* a Seek to MaxOff has returned with the cursor at the end, on a hole
C2_Witness ==
    /\ last.op = "Seek"
    /\ last.err = "nil"
    /\ last.n = MaxOff
    /\ pos = Len(buf)
    /\ buf[pos] = 0

\* the write-style calls of k bytes and the File each leaves
WriteOuts ==
    {[k |-> Len(p), f |-> Write(Cur, p, e).f] : p \in Datas, e \in Slacks}
        \cup {[k |-> Len(p), f |-> WriteString(Cur, p, e).f] :
                  p \in Datas, e \in Slacks}
        \cup {[k |-> 1, f |-> WriteByte(Cur, c, e).f] : c \in Byte, e \in Slacks}
        \cup UNION {{[k |-> w, f |-> WriteUint(Cur, o, v, e)] :
                        v \in Numbers(w), o \in Orders, e \in Slacks} :
                    w \in Widths}
        \cup {[k |-> n, f |-> Expand(Cur, n, e)] : n \in 0..MaxData, e \in Slacks}

\* C3 as claimed: after a write-style call the cursor is the new logical
\* length, and a Read then copies 0 bytes and reports end of data.
C3_WriteEndsAtLength ==
    last.op \in {"Write", "WriteString", "WriteByte", "WriteUint", "Expand"} =>
        /\ pos = Len(buf)
        /\ \A k \in 0..MaxData :
               Read(Cur, k).n = 0 /\ Read(Cur, k).err = "EOF"

\* C3 as amended: a write-style call of k bytes at cursor p leaves the cursor
\* at p + k and the logical length at max(old length, p + k); the cursor is
\* the new logical length, and a Read then copies 0 bytes and reports end of
\* data, exactly when p + k reaches the old logical length.
C3_WriteAdvancesCursor ==
    \A w \in WriteOuts :
        /\ w.f.pos = pos + w.k
        /\ Len(w.f.buf) = Max(Len(buf), pos + w.k)
        /\ (w.f.pos = Len(w.f.buf)) <=> (pos + w.k >= Len(buf))
        /\ \A k \in 0..MaxData :
               LET r == Read(w.f, k)
               IN  /\ (r.err = "EOF") <=> (pos + w.k >= Len(buf))
                   /\ r.err = "EOF" => r.n = 0
                   /\ r.err # "EOF" => r.n = Min(k, Len(buf) - (pos + w.k))

\* a write has ended inside the data, and the Read that follows returns a byte
C3_Witness ==
    /\ last.op \in {"Write", "WriteString", "WriteByte", "WriteUint", "Expand"}
    /\ pos > 0
    /\ pos < Len(buf)
    /\ Read(Cur, 1).n = 1

\* C4: Truncate(k) and then Truncate(m), k < m, leave logical length and
\* cursor m, the first k bytes as they were, and 0 in every byte of [k, m),
\* whatever Truncate(k) discarded.  (After Truncate(k), k is the logical
\* length.)
C4_TruncateGapIsZero ==
    /\ \A k \in Sizes, e \in Slacks :
           SamePrefix(Truncate(Cur, k, e).buf, buf, Min(k, Len(buf)))
    /\ last.op = "Truncate" =>
           \A m \in Sizes, e \in Slacks :
               Len(buf) < m =>
                   LET t == Truncate(Cur, m, e)
                   IN  /\ Len(t.buf) = m
                       /\ t.pos = m
                       /\ SamePrefix(t.buf, buf, Len(buf))
                       /\ \A i \in (Len(buf) + 1)..m : t.buf[i] = 0

\* C5: Seek with a valid origin and a target sp >= 0 returns sp and no error,
\* sets the cursor to sp and the logical length to max(old length, sp), and
\* leaves the bytes below the old length as they were.
C5_SeekMovesCursor ==
    \A offset \in Offsets, whence \in Whences, e \in Slacks :
        LET sp == Target(offset, whence)
            r == Seek(Cur, offset, whence, e)
        IN  Valid(whence) /\ sp >= 0 =>
                /\ r.n = sp
                /\ r.err = "nil"
                /\ r.f.pos = sp
                /\ Len(r.f.buf) = Max(Len(buf), sp)
                /\ SamePrefix(r.f.buf, buf, Len(buf))

\* a Seek has returned the end of a buffer that begins with data and ends
\* with a hole
C5_Witness ==
    /\ last.op = "Seek"
    /\ last.err = "nil"
    /\ last.n = pos
    /\ pos = Len(buf)
    /\ pos >= 2
    /\ buf[1] = 1
    /\ buf[pos] = 0

\* C6: Seek fails, with the invalid-argument error, exactly when the origin
\* is none of the three or the target is negative, and a Seek that fails
\* leaves cursor, logical length and content as they were.
C6_SeekFailsOnlyOnBadArgs ==
    \A offset \in Offsets, whence \in Whences, e \in Slacks :
        LET r == Seek(Cur, offset, whence, e)
            bad == ~Valid(whence) \/ Target(offset, whence) < 0
        IN  /\ r.err \in {"nil", "ErrInvalid"}
            /\ (r.err = "ErrInvalid") <=> bad
            /\ bad => r.f.pos = pos /\ r.f.buf = buf

\* a Seek has failed on a buffer with data and the cursor inside it
C6_Witness ==
    /\ last.op = "Seek"
    /\ last.err = "ErrInvalid"
    /\ pos > 0
    /\ pos < Len(buf)

\* C7: Write(b) at cursor p, then Seek(p, SeekStart), then Read into len(b)
\* bytes yields b and leaves the cursor at p + len(b).
C7_RoundTrip ==
    \A b \in Datas, e1 \in Slacks, e2 \in Slacks :
        LET w == Write(Cur, b, e1)
            s == Seek(w.f, pos, SeekStart, e2)
            r == Read(s.f, Len(b))
        IN  /\ w.n = Len(b)
            /\ s.err = "nil"
            /\ r.n = Len(b)
            /\ r.data = b
            /\ r.f.pos = pos + Len(b)

\* a round trip that began after the start of the buffer has come to its end
C7_Witness ==
    /\ trip.st = "read"
    /\ trip.k > 0
    /\ trip.p > 0
    /\ last.op = "Read"
    /\ pos = trip.p + trip.k

\* the byte writes of k bytes at the cursor and the File each leaves
ByteWrites ==
    {[p |-> p, f |-> Write(Cur, p, e).f] : p \in Datas, e \in Slacks}
        \cup {[p |-> p, f |-> WriteString(Cur, p, e).f] :
                  p \in Datas, e \in Slacks}
        \cup {[p |-> <<c>>, f |-> WriteByte(Cur, c, e).f] :
                  c \in Byte, e \in Slacks}

\* C8: Write, WriteString and WriteByte of k bytes at cursor p put the data
\* in [p, p + k), leave every other byte below the old logical length as it
\* was, and make the logical length max(old length, p + k).
C8_WriteInPlace ==
    \A w \in ByteWrites :
        LET k == Len(w.p)
        IN  /\ Len(w.f.buf) = Max(Len(buf), pos + k)
            /\ \A i \in 1..Len(buf) :
                   w.f.buf[i] = IF i > pos /\ i <= pos + k
                                THEN w.p[i - pos] ELSE buf[i]
            /\ \A i \in 1..k : w.f.buf[pos + i] = w.p[i]

\* a write has ended inside the data
C8_Witness ==
    /\ last.op \in {"Write", "WriteString", "WriteByte"}
    /\ last.err = "nil"
    /\ pos > 0
    /\ pos < Len(buf)

\* C9: Truncate(n), 0 <= n <= logical length, sets logical length and cursor
\* to n and keeps the first n bytes, so that Write(b) then leaves the old
\* first n bytes followed by b.
C9_TruncateThenWrite ==
    \A n \in 0..Len(buf), e1 \in Slacks :
        LET t == Truncate(Cur, n, e1)
        IN  /\ Len(t.buf) = n
            /\ t.pos = n
            /\ t.buf = Slice(buf, 0, n)
            /\ \A b \in Datas, e2 \in Slacks :
                   Write(t, b, e2).f.buf = Slice(buf, 0, n) \o b

\* a Truncate has cut a buffer short, with bytes kept before the cut
C9_Witness ==
    /\ last.op = "Truncate"
    /\ pos = Len(buf)
    /\ pos > 0
    /\ \E i \in 1..Len(spare) : spare[i] # 0

\* C10: Reset leaves the cursor, logical length and content that Truncate(0)
\* leaves, cursor 0 and length 0, and a second Reset changes nothing.
C10_ResetIsTruncateZero ==
    /\ \A e \in Slacks :
           /\ Reset(Cur).pos = Truncate(Cur, 0, e).pos
           /\ Reset(Cur).buf = Truncate(Cur, 0, e).buf
    /\ Reset(Cur).pos = 0
    /\ Reset(Cur).buf = <<>>
    /\ Reset(Reset(Cur)) = Reset(Cur)
    /\ last.op = "Reset" => pos = 0 /\ buf = <<>>

\* a Reset has emptied a buffer that held data
C10_Witness ==
    /\ last.op = "Reset"
    /\ pos = 0
    /\ buf = <<>>
    /\ \E i \in 1..Len(spare) : spare[i] # 0

\* C11: Read into a destination of k bytes with the cursor before the logical
\* length copies min(k, length - cursor) bytes, the content from the cursor
\* on, advances the cursor by that count and returns no error; it returns EOF
\* exactly when the cursor is at or past the logical length, and then copies
\* nothing and leaves cursor, length and content as they were.
C11_ReadCopiesAndAdvances ==
    \A k \in 0..MaxData :
        LET r == Read(Cur, k)
            count == Min(k, Len(buf) - pos)
        IN  /\ (r.err = "EOF") <=> (pos >= Len(buf))
            /\ r.err \in {"nil", "EOF"}
            /\ r.f.buf = buf
            /\ pos < Len(buf) =>
                   /\ r.n = count
                   /\ r.data = Slice(buf, pos, pos + count)
                   /\ r.f.pos = pos + count
            /\ pos >= Len(buf) =>
                   /\ r.n = 0
                   /\ r.data = <<>>
                   /\ r.f.pos = pos

\* a Read has returned bytes from inside the data and stopped before the end
C11_Witness ==
    /\ last.op = "Read"
    /\ last.err = "nil"
    /\ last.n > 0
    /\ pos < Len(buf)

\* C12: ReadFull into a destination of k bytes returns (k, no error) exactly
\* when at least k bytes remain between the cursor and the logical length,
\* which includes an empty destination in any state; otherwise it copies the
\* r < k remaining bytes, advances the cursor by r and returns r with the
\* unexpected-EOF error, never plain EOF.
C12_ReadFullFillsOrShort ==
    \A k \in 0..MaxData :
        LET r == ReadFull(Cur, k)
            rem == Len(buf) - pos
        IN  /\ (r.n = k /\ r.err = "nil") <=> (rem >= k)
            /\ r.err # "EOF"
            /\ rem < k =>
                   /\ r.n = rem
                   /\ r.err = "ErrUnexpectedEOF"
                   /\ r.data = Slice(buf, pos, Len(buf))
                   /\ r.f.pos = pos + rem

\* C13: ReadBytes and ReadString return an error, the unexpected-EOF one,
\* exactly when delim does not occur between the cursor and the logical
\* length; found first at index i they return the bytes from the cursor up to
\* i and put the cursor at i + 1, not found they return the bytes from the
\* cursor to the end and put the cursor at the logical length; length and
\* content stay, and the returned bytes are those of the time of the call.
C13_ReadBytesUpToDelim ==
    \A delim \in Byte :
        LET rest == Slice(buf, pos, Len(buf))
            found == \E j \in 1..Len(rest) : rest[j] = delim
            i == pos + IndexByte(rest, delim)
        IN  \A r \in {ReadBytes(Cur, delim), ReadString(Cur, delim)} :
                /\ (r.err # "nil") <=> ~found
                /\ r.err \in {"nil", "ErrUnexpectedEOF"}
                /\ r.f.buf = buf
                /\ found =>
                       /\ \A j \in pos..(i - 1) : buf[j + 1] # delim
                       /\ buf[i + 1] = delim
                       /\ r.data = Slice(buf, pos, i)
                       /\ r.f.pos = i + 1
                /\ ~found =>
                       /\ r.data = rest
                       /\ r.f.pos = Len(buf)

\* a ReadBytes or ReadString has found its delimiter after other bytes and
\* stopped before the end of the data
C13_Witness ==
    /\ last.op \in {"ReadBytes", "ReadString"}
    /\ last.err = "nil"
    /\ pos >= 2
    /\ pos < Len(buf)
    /\ buf[pos] # buf[pos - 1]

\* C14: WriteTo with the cursor at the logical length fails with the
\* unexpected-EOF error, returns 0, does not call the sink and changes nothing;
\* otherwise it offers the bytes from the cursor to the logical length in one
\* call, advances the cursor by the count a the sink accepted and returns a,
\* with the short-write error when a is less than offered and the sink gave no
\* error, the sink's error when it gave one, and no error only when all was
\* accepted, the cursor then being at the logical length.
C14_WriteToOffersRest ==
    /\ pos >= Len(buf) =>
           \A sink \in Sinks(MaxData) :
               LET r == WriteTo(Cur, sink)
               IN  /\ r.err = "ErrUnexpectedEOF"
                   /\ r.n = 0
                   /\ r.data = <<>>
                   /\ r.f = Cur
    /\ pos < Len(buf) =>
           \A sink \in Sinks(Len(buf) - pos) :
               LET r == WriteTo(Cur, sink)
                   offered == Slice(buf, pos, Len(buf))
               IN  /\ r.data = offered
                   /\ r.n = sink.n
                   /\ r.f.pos = pos + sink.n
                   /\ r.f.buf = buf
                   /\ r.err = IF sink.err # "nil" THEN sink.err
                              ELSE IF sink.n < Len(offered) THEN "ErrShortWrite"
                              ELSE "nil"
                   /\ r.err = "nil" => r.f.pos = Len(buf)

\* a sink has accepted some of the bytes it was offered and not all
C14_Witness ==
    /\ last.op = "WriteTo"
    /\ last.err = "ErrShortWrite"
    /\ last.n > 0
    /\ pos < Len(buf)

\* C15: a caller that only calls Read, with destinations that are not empty,
\* from a cursor p gets the bytes from p to the logical length, in order and
\* nothing else, then gets EOF in the end, and from then on every Read
\* returns EOF and the cursor stays at the logical length.
C15_DrainDelivers ==
    /\ [](drain.out = Slice(buf, drain.p, pos))
    /\ <>(last.op = "Read" /\ last.err = "EOF")
    /\ [](last.err = "EOF" =>
              [](/\ last.err = "EOF"
                 /\ pos = Len(buf)
                 /\ drain.out = Slice(buf, drain.p, Len(buf))))

\* a drain that began at the start of the data has reached EOF after more
\* bytes than one Read call can return
C15_Witness ==
    /\ last.op = "Read"
    /\ last.err = "EOF"
    /\ drain.p = 0
    /\ Len(drain.out) > MaxData
    /\ drain.out = buf


\* the strings of a PrintString call, one after the other
RECURSIVE Concat(_)
Concat(a) == IF a = <<>> THEN <<>> ELSE Head(a) \o Concat(Tail(a))

PrintOps == {"PrintByte", "PrintBytes", "PrintString", "PrintRune", "PrintFunc"}

\* g is the File a print operation leaves that appends c at the cursor
Appended(g, c) ==
    /\ g.pos = pos + Len(c)
    /\ Len(g.buf) >= g.pos
    /\ Slice(g.buf, pos, g.pos) = c
    /\ SamePrefix(g.buf, buf, pos)

\* C16: after PrintByte, PrintBytes, PrintString with any number of strings,
\* PrintRune and PrintFunc, in any reachable state, the cursor in the middle
\* of the data included, the logical length equals the cursor, the bytes from
\* the old cursor to the new one are the appended content, and the bytes
\* before the old cursor are unchanged.
C16_PrintEndsAtLength ==
    /\ last.op \in PrintOps => Len(buf) = pos
    /\ \A e \in Slacks :
           /\ \A b \in Byte : Appended(PrintByte(Cur, b, e), <<b>>)
           /\ \A s \in Datas : Appended(PrintBytes(Cur, s, e), s)
           /\ \A a \in StringLists :
                  Appended(PrintString(Cur, a, e), Concat(a))
           /\ \A r \in Runes :
                  Appended(PrintRune(Cur, r, e), EncodeRune(r))
           /\ \A size \in 0..(MaxData - 1) :
                  \A fn \in Funcs(size) :
                      Appended(PrintFunc(Cur, size, fn, e), fn.t)

\* what a caller can see of a File: Offset(), Len() and Bytes()
Observe(f) == [pos |-> f.pos, buf |-> f.buf]

\* two calls returned the same and left Files that look the same
SameRet(a, b) ==
    /\ a.n = b.n
    /\ a.err = b.err
    /\ a.data = b.data
    /\ Observe(a.f) = Observe(b.f)

\* every call that looks at the capacity gives on g what it gives on f, the
\* sources of ReadFrom being those that answer the same whatever room they
\* are offered
SameAfter(f, g) ==
    \A e \in Slacks :
        /\ \A offset \in Offsets, whence \in Whences :
               SameRet(Seek(f, offset, whence, e), Seek(g, offset, whence, e))
        /\ \A n \in Sizes :
               Observe(Truncate(f, n, e)) = Observe(Truncate(g, n, e))
        /\ \A p \in Datas :
               /\ SameRet(Write(f, p, e), Write(g, p, e))
               /\ Observe(PrintBytes(f, p, e)) = Observe(PrintBytes(g, p, e))
        /\ \A n \in 0..MaxData :
               Observe(Expand(f, n, e)) = Observe(Expand(g, n, e))
        /\ \A r \in Runes :
               Observe(PrintRune(f, r, e)) = Observe(PrintRune(g, r, e))
        /\ \A a \in StringLists :
               Observe(PrintString(f, a, e)) = Observe(PrintString(g, a, e))
        /\ \A size \in 0..(MaxData - 1) :
               \A fn \in Funcs(size) :
                   Observe(PrintFunc(f, size, fn, e))
                       = Observe(PrintFunc(g, size, fn, e))
        /\ \A calls \in Sources :
               SameRet(ReadFrom(f, calls, e), ReadFrom(g, calls, e))

\* ReadFrom from a source that fills the room it is offered gives on g what
\* it gives on f
SameAfterGreedy(f, g) ==
    \A d \in Streams, e \in Slacks :
        SameRet(ReadFrom(f, GreedyCalls(f, d, e), e),
                ReadFrom(g, GreedyCalls(g, d, e), e))

\* C17: Grow(n), n >= 0, changes neither the cursor, the logical length nor
\* any byte of the content, in any reachable state: the length, the offset,
\* the content and the result of the operations that follow are what they
\* are when Grow is not called.
C17_GrowChangesNothing ==
    \A n \in 0..MaxData, e \in Slacks :
        LET g == Grow(Cur, n, e)
        IN  /\ Observe(g) = Observe(Cur)
            /\ SameAfter(Cur, g)
            /\ SameAfterGreedy(Cur, g)

\* C18: ReadByte with the cursor before the logical length returns the byte
\* at the index of the cursor, not the one after it, then advances the cursor
\* by one: the byte and the state a Read into a destination of one byte
\* gives; with the cursor at or past the logical length it returns EOF and
\* changes nothing.
C18_ReadByteAtCursor ==
    LET r == ReadByte(Cur)
        q == Read(Cur, 1)
    IN  /\ pos < Len(buf) =>
               /\ r.err = "nil"
               /\ r.data = <<buf[pos + 1]>>
               /\ r.f.pos = pos + 1
               /\ r.f.buf = buf
               /\ r.data = q.data
               /\ r.err = q.err
               /\ r.f = q.f
        /\ pos >= Len(buf) =>
               /\ r.err = "EOF"
               /\ r.f = Cur

\* a ReadByte has passed a byte that differs from the byte that follows it
C18_Witness ==
    /\ last.op = "ReadByte"
    /\ last.err = "nil"
    /\ pos >= 1
    /\ pos < Len(buf)
    /\ buf[pos] # buf[pos + 1]

\* C19: a typed read of width w, 2, 4 or 8, with fewer than w bytes between
\* the cursor and the logical length returns the unexpected-EOF error and
\* the value 0 and takes the bytes that remain: the cursor ends at the
\* logical length, length and content stay; with at least w bytes it
\* succeeds and advances the cursor by w.
C19_TypedReadShortOrWhole ==
    \A w \in Widths, o \in Orders :
        LET r == ReadUint(Cur, w, o)
            rem == Len(buf) - pos
        IN  /\ r.f.buf = buf
            /\ rem < w =>
                   /\ r.err = "ErrUnexpectedEOF"
                   /\ r.data = Zeros(w)
                   /\ r.f.pos = Len(buf)
            /\ rem >= w =>
                   /\ r.err = "nil"
                   /\ r.data = Uint(o, Slice(buf, pos, pos + w))
                   /\ r.f.pos = pos + w

\* a typed read has failed and taken the bytes that were left
C19_Witness ==
    /\ last.op = "ReadUint"
    /\ last.err = "ErrUnexpectedEOF"
    /\ last.n > 0
    /\ pos = Len(buf)

\* the File r.f a reading call leaves has the length and content of the
\* current one, and its cursor is not before the current one
KeepsContent(r) ==
    /\ r.f.buf = buf
    /\ r.f.pos >= pos

\* C20: Read, ReadByte, ReadFull, ReadBytes, ReadString and WriteTo never
\* change the logical length or a byte of the content, whether they succeed
\* or fail; they change the cursor at most, and never move it backwards.
C20_ReadersKeepContent ==
    /\ \A k \in 0..MaxData :
           /\ KeepsContent(Read(Cur, k))
           /\ KeepsContent(ReadFull(Cur, k))
    /\ KeepsContent(ReadByte(Cur))
    /\ \A delim \in Byte :
           /\ KeepsContent(ReadBytes(Cur, delim))
           /\ KeepsContent(ReadString(Cur, delim))
    /\ \A sink \in Sinks(Len(buf) - pos) :
           KeepsContent(WriteTo(Cur, sink))

\* a ReadFull has failed after taking the bytes that were left, which are
\* still in the buffer
C20_Witness ==
    /\ last.op = "ReadFull"
    /\ last.err = "ErrUnexpectedEOF"
    /\ last.n > 0
    /\ pos = Len(buf)
    /\ \E i \in 1..Len(buf) : buf[i] # 0

====
